---- MODULE Spec2Model ----
(***************************************************************************)
(* Model of the content-based recommender of ecommerceai:                  *)
(*   src/ml/recommender.py      RecommenderEngine (fit, build_interest_    *)
(*                              profile, get_recommendations, explain_     *)
(*                              recommendation)                            *)
(*   src/routers/recommend.py   conversion of stored behaviours            *)
(*                                                                         *)
(* A text is a sequence of atoms.  An atom is either the blank SP or a     *)
(* word (each word atom stands for a token of two or more letters, the     *)
(* unit TfidfVectorizer's default token pattern extracts).  Weights are    *)
(* integers: term count times the inverse document frequency in tenths,    *)
(* so every comparison the code makes on normalised floats is made here    *)
(* on exact fractions.                                                     *)
(***************************************************************************)
EXTENDS Integers, Sequences, FiniteSets, TLC

VARIABLES
  is_fitted,   \* RecommenderEngine.is_fitted
  vocabulary,  \* RecommenderEngine.vocabulary
  vectorizer,  \* the fitted state of RecommenderEngine.vectorizer
  inputs,      \* the corpus, behaviours, catalog and count a run calls with
  op,          \* the last call made
  args,        \* its arguments
  outcome,     \* "ok" or the exception it raised
  ret,         \* what it returned
  db,          \* the products and user_behaviors tables
  requests     \* where each request to the endpoint is in its handler

vars ==
  <<is_fitted, vocabulary, vectorizer, inputs, op, args, outcome, ret, db,
    requests>>

engine == <<is_fitted, vocabulary, vectorizer>>

app == <<db, requests>>

(***************************************************************************)
(* Bounds                                                                  *)
(***************************************************************************)
MaxEvents == 3

MaxRankEvents == 1

MaxCorpus == 4

MaxCatalog == 2

MaxCount == 2

MaxProducts == 3

MaxStored == 2

MaxRequests == 2

(***************************************************************************)
(* Texts                                                                   *)
(***************************************************************************)
SP == " "

\* the words of the model in the order Python compares their strings
WordOrder == <<"bass", "gym", "run", "the">>

\* stop_words='english' (only "the" of the model's words is in that list)
StopWords == {"the"}

RECURSIVE Join(_)
\* " ".join(parts)
Join(parts) ==
  IF parts = << >> THEN << >>
  ELSE IF Len(parts) = 1 THEN parts[1]
  ELSE parts[1] \o <<SP>> \o Join(Tail(parts))

RECURSIVE LStrip(_)
LStrip(t) == IF t # << >> /\ Head(t) = SP THEN LStrip(Tail(t)) ELSE t

RECURSIVE RStrip(_)
RStrip(t) ==
  IF t # << >> /\ t[Len(t)] = SP THEN RStrip(SubSeq(t, 1, Len(t) - 1)) ELSE t

\* str.strip()
Strip(t) == RStrip(LStrip(t))

\* [x] * k
Repeat(x, k) == [i \in 1..k |-> x]

RECURSIVE Flatten(_)
\* the concatenation of a sequence of lists (successive list.extend calls)
Flatten(ls) == IF ls = << >> THEN << >> ELSE Head(ls) \o Flatten(Tail(ls))

(***************************************************************************)
(* RecommenderEngine.build_interest_profile                                *)
(***************************************************************************)
\* the two shapes of behaviour dict the engine is given
SearchBehavior(q) == [action |-> "search", searchquery |-> q]

ProductBehavior(kind, ctx) == [action |-> kind, productcontext |-> ctx]

OfKind(behaviors, kind) == SelectSeq(behaviors, LAMBDA b : b.action = kind)

\* interest_parts filled in one loop over the events, in input order
interest_parts_in_input_order(behaviors) ==
  Flatten([i \in 1..Len(behaviors) |->
             IF behaviors[i].action = "search"
             THEN Repeat(behaviors[i].searchquery, 3)
             ELSE IF behaviors[i].action = "click"
             THEN Repeat(behaviors[i].productcontext, 2)
             ELSE IF behaviors[i].action = "view"
             THEN <<behaviors[i].productcontext>>
             ELSE << >>])

\* interest_parts with every event that is no search and no click a view
interest_parts_else_view(behaviors) ==
  LET searches == OfKind(behaviors, "search")
      clicks == OfKind(behaviors, "click")
      views == SelectSeq(behaviors,
                         LAMBDA b : b.action \notin {"search", "click"})
  IN Flatten([i \in 1..Len(searches) |-> Repeat(searches[i].searchquery, 3)])
     \o Flatten([i \in 1..Len(clicks) |-> Repeat(clicks[i].productcontext, 2)])
     \o [i \in 1..Len(views) |-> views[i].productcontext]

\* interest_parts after the three loops
interest_parts(behaviors) ==
  LET searches == OfKind(behaviors, "search")
      clicks == OfKind(behaviors, "click")
      views == OfKind(behaviors, "view")
  IN Flatten([i \in 1..Len(searches) |-> Repeat(searches[i].searchquery, 3)])
     \o Flatten([i \in 1..Len(clicks) |-> Repeat(clicks[i].productcontext, 2)])
     \o [i \in 1..Len(views) |-> views[i].productcontext]

\* build_interest_profile without the strip() of the joined text
build_without_strip(behaviors) ==
  IF behaviors = << >> THEN << >>
  ELSE Join(interest_parts(behaviors))

build_interest_profile(behaviors) ==
  IF behaviors = << >> THEN << >>
  ELSE Strip(Join(interest_parts(behaviors)))

(***************************************************************************)
(* TfidfVectorizer(max_features=1000, stop_words='english', min_df=2,      *)
(*                 max_df=0.8, ngram_range=(1, 2))                         *)
(***************************************************************************)
max_features == 1000

min_df == 2

\* max_df = 0.8, in tenths
max_df_tenths == 8

\* the tokens of a text: its words, stop words removed
Tokens(t) == SelectSeq(t, LAMBDA c : c # SP /\ c \notin StopWords)

\* the 1-grams and 2-grams of a text, with repetitions
NGrams(t) ==
  LET tk == Tokens(t)
  IN [i \in 1..Len(tk) |-> <<tk[i]>>]
     \o [i \in 1..(Len(tk) - 1) |-> <<tk[i], tk[i + 1]>>]

Count(term, t) ==
  LET g == NGrams(t) IN Cardinality({i \in 1..Len(g) : g[i] = term})

TermsOf(t) == LET g == NGrams(t) IN {g[i] : i \in 1..Len(g)}

\* the set of terms of each document
DocTerms(corpus) == [d \in 1..Len(corpus) |-> TermsOf(corpus[d])]

CorpusTerms(docs) == UNION {docs[d] : d \in 1..Len(docs)}

\* document frequency of a term
DF(term, docs) == Cardinality({d \in 1..Len(docs) : term \in docs[d]})

\* total count of a term over the corpus
TF(term, corpus) ==
  LET RECURSIVE Sum(_)
      Sum(d) == IF d = 0 THEN 0 ELSE Count(term, corpus[d]) + Sum(d - 1)
  IN Sum(Len(corpus))

\* the terms that pass min_df and max_df
Pruned(corpus) ==
  LET docs == DocTerms(corpus)
  IN {t \in CorpusTerms(docs) :
        /\ DF(t, docs) >= min_df
        /\ 10 * DF(t, docs) <= max_df_tenths * Len(corpus)}

\* at most max_features of them, the most frequent ones
Limited(corpus) ==
  LET kept == Pruned(corpus)
  IN IF Cardinality(kept) <= max_features THEN kept
     ELSE CHOOSE S \in SUBSET kept :
            /\ Cardinality(S) = max_features
            /\ \A x \in S, y \in kept \ S : TF(x, corpus) >= TF(y, corpus)

WordRank(w) == CHOOSE i \in 1..Len(WordOrder) : WordOrder[i] = w

\* the order of the feature names: "bass" < "bass gym" < "gym"
TermLess(x, y) ==
  \/ WordRank(x[1]) < WordRank(y[1])
  \/ /\ x[1] = y[1]
     /\ \/ Len(x) < Len(y)
        \/ Len(x) = 2 /\ Len(y) = 2 /\ WordRank(x[2]) < WordRank(y[2])

RECURSIVE SortTerms(_)
\* a set of terms as the sorted array of feature names
SortTerms(S) ==
  IF S = {} THEN << >>
  ELSE LET least == CHOOSE x \in S : \A y \in S \ {x} : TermLess(x, y)
       IN <<least>> \o SortTerms(S \ {least})

\* smooth idf, ln((1 + n) / (1 + df)) + 1, in tenths
Idf(n, df) ==
  CASE n = 3 /\ df = 2 -> 13
    [] n = 4 /\ df = 2 -> 15
    [] n = 4 /\ df = 3 -> 12
    [] n = 5 /\ df = 2 -> 17
    [] n = 5 /\ df = 3 -> 14
    [] n = 5 /\ df = 4 -> 12
    [] n = 6 /\ df = 2 -> 18
    [] n = 6 /\ df = 3 -> 16
    [] n = 6 /\ df = 4 -> 13
    [] OTHER -> 10

\* the vectorizer before any fit
Unfitted ==
  [has_vocabulary |-> FALSE, vocabulary_ |-> << >>,
   has_idf |-> FALSE, idf_ |-> << >>]

\* vectorizer.fit raises ValueError: no term in the corpus, max_df * n below
\* min_df, or no term left after pruning
FitRaises(corpus) ==
  \/ CorpusTerms(DocTerms(corpus)) = {}
  \/ max_df_tenths * Len(corpus) < 10 * min_df
  \/ Limited(corpus) = {}

\* the vectorizer after a fit that succeeds
Fitted(corpus) ==
  LET names == SortTerms(Limited(corpus))
      docs == DocTerms(corpus)
  IN [has_vocabulary |-> TRUE, vocabulary_ |-> names,
      has_idf |-> TRUE,
      idf_ |-> [i \in 1..Len(names) |->
                  Idf(Len(corpus), DF(names[i], docs))]]

\* the vectorizer after a fit that raises: vocabulary_ is assigned last and
\* so is kept; the idf transformer is kept by the library versions that
\* create it in the constructor and replaced by an unfitted one by those
\* that create it in fit
AfterFailedFit(v) == {v, [v EXCEPT !.has_idf = FALSE, !.idf_ = << >>]}

\* vectorizer.transform raises NotFittedError
TransformRaises(v) == ~v.has_vocabulary \/ ~v.has_idf

\* the number of times each term occurs among the n-grams g
Counts(terms, g) ==
  [i \in 1..Len(terms) |-> Cardinality({j \in 1..Len(g) : g[j] = terms[i]})]

\* one row of vectorizer.transform before normalisation: count times idf
Weights(v, t) ==
  LET tf == Counts(v.vocabulary_, NGrams(t))
  IN [i \in 1..Len(v.vocabulary_) |-> tf[i] * v.idf_[i]]

RECURSIVE Dot(_, _)
Dot(x, y) == IF x = << >> THEN 0 ELSE Head(x) * Head(y) + Dot(Tail(x), Tail(y))

\* the square of the Euclidean norm
Norm2(x) == Dot(x, x)

(***************************************************************************)
(* Fractions of naturals, compared without multiplying                     *)
(***************************************************************************)
RECURSIVE FracLess(_, _, _, _)
\* a / b < c / d, for b > 0 and d > 0
FracLess(a, b, c, d) ==
  IF a \div b # c \div d THEN a \div b < c \div d
  ELSE IF c % d = 0 THEN FALSE
  ELSE IF a % b = 0 THEN TRUE
  ELSE FracLess(d, c % d, b, a % b)

\* a similarity score: the square of the cosine, as a fraction
ScoreLess(x, y) == FracLess(x.num, x.den, y.num, y.den)

\* the threshold 0.1, squared
MinScore == [num |-> 1, den |-> 100]

\* cosine_similarity of two rows (a zero row has similarity 0)
cosine_similarity(u, p) ==
  IF Norm2(u) = 0 \/ Norm2(p) = 0 THEN [num |-> 0, den |-> 1]
  ELSE [num |-> Dot(u, p) * Dot(u, p), den |-> Norm2(u) * Norm2(p)]

\* s[:k]
Slice(s, k) ==
  IF k >= 0 THEN SubSeq(s, 1, IF k < Len(s) THEN k ELSE Len(s))
  ELSE SubSeq(s, 1, IF Len(s) + k > 0 THEN Len(s) + k ELSE 0)

\* np.argsort(similarities), the negation forgotten: smallest first
argsort_asc(similarities) ==
  {p \in [1..Len(similarities) -> 1..Len(similarities)] :
     /\ \A i, j \in 1..Len(similarities) : i # j => p[i] # p[j]
     /\ \A i, j \in 1..Len(similarities) :
          i < j => ~ScoreLess(similarities[p[j]], similarities[p[i]])}

\* np.argsort(-similarities): the default sort kind is not stable, so any
\* ordering of the indices by non-increasing similarity may come out
argsort_desc(similarities) ==
  {p \in [1..Len(similarities) -> 1..Len(similarities)] :
     /\ \A i, j \in 1..Len(similarities) : i # j => p[i] # p[j]
     /\ \A i, j \in 1..Len(similarities) :
          i < j => ~ScoreLess(similarities[p[i]], similarities[p[j]])}

(***************************************************************************)
(* RecommenderEngine                                                       *)
(***************************************************************************)
NoRet == [profile |-> << >>, recs |-> << >>, terms |-> << >>]

NoContexts == "ValueError: No product contexts provided!"

FitFailed == "ValueError: raised by vectorizer.fit"

MustFit == "ValueError: Must call fit() first with product contexts!"

NotFitted == "NotFittedError"

NoSamples == "ValueError: Found array with 0 sample(s)"

NoneVocabulary == "TypeError: 'NoneType' object is not subscriptable"

\* the engine object
Self ==
  [is_fitted |-> is_fitted, vocabulary |-> vocabulary,
   vectorizer |-> vectorizer]

\* __init__
EngineInit ==
  /\ vectorizer = Unfitted
  /\ is_fitted = FALSE
  /\ vocabulary = [is_none |-> TRUE, names |-> << >>]

\* fit with is_fitted set before the corpus is looked at
fit_flag_first(self, product_contexts) ==
  IF product_contexts = << >>
  THEN {[outcome |-> NoContexts, self |-> [self EXCEPT !.is_fitted = TRUE]]}
  ELSE IF FitRaises(product_contexts)
  THEN {[outcome |-> FitFailed,
         self |-> [self EXCEPT !.vectorizer = v, !.is_fitted = TRUE]] :
          v \in AfterFailedFit(self.vectorizer)}
  ELSE LET fitted == Fitted(product_contexts)
       IN {[outcome |-> "ok",
            self |-> [is_fitted |-> TRUE,
                      vocabulary |->
                        [is_none |-> FALSE, names |-> fitted.vocabulary_],
                      vectorizer |-> fitted]]}

\* fit with is_fitted cleared when vectorizer.fit raises
fit_unfits_on_failure(self, product_contexts) ==
  IF product_contexts = << >>
  THEN {[outcome |-> NoContexts, self |-> self]}
  ELSE IF FitRaises(product_contexts)
  THEN {[outcome |-> FitFailed,
         self |-> [self EXCEPT !.vectorizer = v, !.is_fitted = FALSE]] :
          v \in AfterFailedFit(self.vectorizer)}
  ELSE LET fitted == Fitted(product_contexts)
       IN {[outcome |-> "ok",
            self |-> [is_fitted |-> TRUE,
                      vocabulary |->
                        [is_none |-> FALSE, names |-> fitted.vocabulary_],
                      vectorizer |-> fitted]]}

\* fit: the outcomes and the engine each leaves
fit(self, product_contexts) ==
  IF product_contexts = << >>
  THEN {[outcome |-> NoContexts, self |-> self]}
  ELSE IF FitRaises(product_contexts)
  THEN {[outcome |-> FitFailed, self |-> [self EXCEPT !.vectorizer = v]] :
          v \in AfterFailedFit(self.vectorizer)}
  ELSE LET fitted == Fitted(product_contexts)
       IN {[outcome |-> "ok",
            self |-> [is_fitted |-> TRUE,
                      vocabulary |->
                        [is_none |-> FALSE, names |-> fitted.vocabulary_],
                      vectorizer |-> fitted]]}

\* similarities[i], for i in 1..len(product_contexts)
similarities(v, interest_text, product_contexts) ==
  LET user_vector == Weights(v, interest_text)
  IN [i \in 1..Len(product_contexts) |->
        cosine_similarity(user_vector, Weights(v, product_contexts[i]))]

\* score > 0.1
Relevant(score) == ScoreLess(MinScore, score)

\* the loop over top_indices without the test of the score
recommendations_unfiltered(top_indices, sims, product_contexts) ==
  [k \in 1..Len(top_indices) |->
     [product_index |-> top_indices[k] - 1,
      similarity_score |-> sims[top_indices[k]],
      product_context |-> product_contexts[top_indices[k]]]]

\* the loop over top_indices (match_percentage, a rendering of
\* similarity_score, is left out; product_index counts from 0)
recommendations(top_indices, sims, product_contexts) ==
  LET kept == SelectSeq(top_indices, LAMBDA idx : Relevant(sims[idx]))
  IN [k \in 1..Len(kept) |->
        [product_index |-> kept[k] - 1,
         similarity_score |-> sims[kept[k]],
         product_context |-> product_contexts[kept[k]]]]

\* get_recommendations with the empty-behaviours return moved in front of
\* the is_fitted check
get_recommendations_empty_first(self, user_behaviors, product_contexts, top_n) ==
  LET interest_text == build_interest_profile(user_behaviors)
      sims == similarities(self.vectorizer, interest_text, product_contexts)
      built == [NoRet EXCEPT !.profile = interest_text]
  IN IF user_behaviors = << >> THEN {[outcome |-> "ok", ret |-> NoRet]}
     ELSE IF ~self.is_fitted THEN {[outcome |-> MustFit, ret |-> NoRet]}
     ELSE IF interest_text = << >> THEN {[outcome |-> "ok", ret |-> built]}
     ELSE IF TransformRaises(self.vectorizer)
     THEN {[outcome |-> NotFitted, ret |-> built]}
     ELSE IF product_contexts = << >>
     THEN {[outcome |-> NoSamples, ret |-> built]}
     ELSE {[outcome |-> "ok",
            ret |-> [built EXCEPT !.recs =
                       recommendations(Slice(order, top_n), sims,
                                       product_contexts)]] :
             order \in argsort_desc(sims)}

\* get_recommendations: the outcomes and the value each returns
get_recommendations(self, user_behaviors, product_contexts, top_n) ==
  LET interest_text == build_interest_profile(user_behaviors)
      sims == similarities(self.vectorizer, interest_text, product_contexts)
      built == [NoRet EXCEPT !.profile = interest_text]
  IN IF ~self.is_fitted THEN {[outcome |-> MustFit, ret |-> NoRet]}
     ELSE IF user_behaviors = << >> THEN {[outcome |-> "ok", ret |-> NoRet]}
     ELSE IF interest_text = << >> THEN {[outcome |-> "ok", ret |-> built]}
     ELSE IF TransformRaises(self.vectorizer)
     THEN {[outcome |-> NotFitted, ret |-> built]}
     \* an array of no rows is rejected by the validation in transform and
     \* in cosine_similarity
     ELSE IF product_contexts = << >>
     THEN {[outcome |-> NoSamples, ret |-> built]}
     ELSE {[outcome |-> "ok",
            ret |-> [built EXCEPT !.recs =
                       recommendations(Slice(order, top_n), sims,
                                       product_contexts)]] :
             order \in argsort_desc(sims)}

\* user_score > 0.1, for entry i of a row w of weights before normalisation
Heavy(w, i) == 100 * w[i] * w[i] > Norm2(w)

RECURSIVE InsertDesc(_, _, _)
\* x put behind every element of the sorted s whose key is not smaller
InsertDesc(x, s, key) ==
  IF s = << >> THEN <<x>>
  ELSE IF key[Head(s)] >= key[x] THEN <<Head(s)>> \o InsertDesc(x, Tail(s), key)
  ELSE <<x>> \o s

RECURSIVE SortDesc(_, _)
\* list.sort(key=..., reverse=True): stable, largest key first
SortDesc(s, key) ==
  IF s = << >> THEN << >>
  ELSE InsertDesc(s[Len(s)], SortDesc(SubSeq(s, 1, Len(s) - 1), key), key)

\* matches with "or" for "and": a term heavy in one of the two rows is taken
matches_either(user_scores, product_scores) ==
  SelectSeq([i \in 1..Len(user_scores) |-> i],
            LAMBDA i : Heavy(user_scores, i) \/ Heavy(product_scores, i))

\* the indices of the vocabulary terms in matches, in vocabulary order
matches(user_scores, product_scores) ==
  SelectSeq([i \in 1..Len(user_scores) |-> i],
            LAMBDA i : Heavy(user_scores, i) /\ Heavy(product_scores, i))

\* matches.sort(...)[:top_words]; the key x[1] * x[2] orders as the product
\* of the weights before normalisation does
top_matches(user_scores, product_scores, top_words) ==
  Slice(SortDesc(matches(user_scores, product_scores),
                 [i \in 1..Len(user_scores) |->
                    user_scores[i] * product_scores[i]]),
        top_words)

\* explain_recommendation: the outcome and the terms of the explanation
explain_recommendation(self, user_behaviors, product_context, top_words) ==
  LET interest_text == build_interest_profile(user_behaviors)
      user_scores == Weights(self.vectorizer, interest_text)
      product_scores == Weights(self.vectorizer, product_context)
      top == top_matches(user_scores, product_scores, top_words)
      built == [NoRet EXCEPT !.profile = interest_text]
  IN IF TransformRaises(self.vectorizer)
     THEN [outcome |-> NotFitted, ret |-> built]
     \* feature_names[i] with self.vocabulary still None
     ELSE IF self.vocabulary.is_none
             /\ matches(user_scores, product_scores) # << >>
     THEN [outcome |-> NoneVocabulary, ret |-> built]
     ELSE [outcome |-> "ok",
           ret |-> [built EXCEPT !.terms =
                      [k \in 1..Len(top) |-> self.vocabulary.names[top[k]]]]]

(***************************************************************************)
(* The calls of a run                                                      *)
(***************************************************************************)
GymBass == <<"gym", SP, "bass">>

GymRun == <<"gym", SP, "run">>

TheBassRun == <<"the", SP, "bass", SP, "run">>

\* eleven times "gym", then "bass"
GymGymBass == Join([i \in 1..11 |-> <<"gym">>] \o <<<<"bass">>>>)

ProductTexts == <<GymBass, GymRun, TheBassRun>>

\* the sequences over ProductTexts of length k
TextSeqs(k) ==
  {[i \in 1..k |-> ProductTexts[f[i]]] : f \in [1..k -> 1..Len(ProductTexts)]}

\* the corpora: MaxCorpus products in a row of the product list, taken
\* cyclically from each product
Corpora ==
  {[i \in 1..MaxCorpus |->
      ProductTexts[((first + i - 2) % Len(ProductTexts)) + 1]] :
     first \in 1..Len(ProductTexts)}

Catalogs == UNION {TextSeqs(k) : k \in 0..MaxCatalog}

RankEvents ==
  {SearchBehavior(<< >>), ProductBehavior("click", GymBass),
   ProductBehavior("view", GymGymBass)}

RankBehaviors == UNION {[1..k -> RankEvents] : k \in 0..MaxRankEvents}

\* top_n, which the endpoint passes on from the request as it comes
TopCounts == (0 - 1)..MaxCount

\* top_words, which no caller sets below its default
TopWords == 0..MaxCount

Args(b, c, n) == [behaviors |-> b, contexts |-> c, n |-> n]

NoArgs == Args(<< >>, << >>, 0)

\* the record of a call
Called(name, a, result, value) ==
  /\ op' = name
  /\ args' = a
  /\ outcome' = result
  /\ ret' = value

\* no table and no request: the engine is called directly
NoApp ==
  /\ db = [products |-> << >>, behaviors |-> << >>]
  /\ requests = << >>

\* the engine the call leaves
Becomes(self) ==
  /\ is_fitted' = self.is_fitted
  /\ vocabulary' = self.vocabulary
  /\ vectorizer' = self.vectorizer

Init ==
  /\ EngineInit
  /\ inputs \in [corpus : Corpora, behaviors : RankBehaviors,
                  contexts : Catalogs, n : TopCounts]
  /\ NoApp
  /\ op = "init"
  /\ args = NoArgs
  /\ outcome = "none"
  /\ ret = NoRet

\* fit on the first k products of the corpus
Fit ==
  /\ \E k \in 0..Len(inputs.corpus) :
       \E r \in fit(Self, SubSeq(inputs.corpus, 1, k)) :
         /\ Called("fit", Args(<< >>, SubSeq(inputs.corpus, 1, k), 0),
                   r.outcome, NoRet)
         /\ Becomes(r.self)
  /\ UNCHANGED <<inputs, app>>

Rank ==
  /\ \E r \in get_recommendations(Self, inputs.behaviors, inputs.contexts,
                                  inputs.n) :
       Called("get_recommendations",
              Args(inputs.behaviors, inputs.contexts, inputs.n),
              r.outcome, r.ret)
  /\ UNCHANGED <<engine, inputs, app>>

Explain ==
  /\ inputs.n \in TopWords
  /\ \E i \in 1..Len(inputs.contexts) :
       LET r == explain_recommendation(Self, inputs.behaviors,
                                       inputs.contexts[i], inputs.n)
       IN Called("explain_recommendation",
                 Args(inputs.behaviors, <<inputs.contexts[i]>>, inputs.n),
                 r.outcome, r.ret)
  /\ UNCHANGED <<engine, inputs, app>>

Next == Fit \/ Rank \/ Explain

Spec == Init /\ [][Next]_vars

(***************************************************************************)
(* The recommendations endpoint (src/routers/recommend.py) and the tables  *)
(* it reads (src/models.py, src/crud.py)                                   *)
(***************************************************************************)
\* get_products' limit
limit == 100

\* explain_recommendation's default top_words
top_words_default == 5

NoHistory == "HTTP 404: No behavior history. Browse/search first!"

NoProducts == "HTTP 404: No active products available!"

\* crud.get_products: the listed products, in table order
get_products(products) ==
  Slice(SelectSeq(products, LAMBDA p : p.isactive /\ p.stock > 0), limit)

\* db.query(Product).filter(Product.id == productid).first(), as a sequence
\* of one product or of none
ProductWithId(products, productid) ==
  Slice(SelectSeq(products, LAMBDA p : p.id = productid), 1)

\* step 4: the stored behaviours in the engine's format
user_behaviors(behaviors, products) ==
  Flatten([i \in 1..Len(behaviors) |->
             IF behaviors[i].action = "search"
             THEN <<SearchBehavior(behaviors[i].searchquery)>>
             ELSE LET product == ProductWithId(products, behaviors[i].productid)
                  IN IF product # << >>
                     THEN <<ProductBehavior(behaviors[i].action,
                                            product[1].productcontext)>>
                     ELSE << >>])

\* step 6: the response, or the exception of the first explanation to raise
Response(self, behaviors, active_products, recs, top_n) ==
  LET explained ==
        [k \in 1..Len(recs) |->
           explain_recommendation(
             self, behaviors,
             active_products[recs[k].product_index + 1].productcontext,
             top_words_default)]
      raised == {k \in 1..Len(recs) : explained[k].outcome # "ok"}
  IN IF raised # {}
     THEN [outcome |->
             explained[CHOOSE k \in raised : \A l \in raised : k <= l].outcome,
           recs |-> << >>]
     ELSE [outcome |-> "ok",
           recs |->
             Slice([k \in 1..Len(recs) |->
                      [product_id |->
                         active_products[recs[k].product_index + 1].id,
                       similarity_score |-> recs[k].similarity_score,
                       explanation |-> explained[k].ret.terms]],
                   top_n)]

\* get_user_recommendations: the outcomes, with the arguments the engine was
\* given, the response and the engine each leaves
get_user_recommendations(self, behaviors, products, top_n) ==
  LET active_products == get_products(products)
      product_contexts ==
        [i \in 1..Len(active_products) |-> active_products[i].productcontext]
      fits == IF ~self.is_fitted THEN fit(self, product_contexts)
              ELSE {[outcome |-> "ok", self |-> self]}
      converted == user_behaviors(behaviors, products)
      given == [behaviors |-> converted, contexts |-> product_contexts,
                n |-> top_n]
  IN IF behaviors = << >>
     THEN {[outcome |-> NoHistory, args |-> [given EXCEPT !.behaviors = << >>],
            ret |-> NoRet, self |-> self]}
     ELSE IF active_products = << >>
     THEN {[outcome |-> NoProducts, args |-> [given EXCEPT !.behaviors = << >>],
            ret |-> NoRet, self |-> self]}
     ELSE UNION {
       IF f.outcome # "ok"
       THEN {[outcome |-> f.outcome,
              args |-> [given EXCEPT !.behaviors = << >>],
              ret |-> NoRet, self |-> f.self]}
       ELSE {IF r.outcome # "ok"
             THEN [outcome |-> r.outcome, args |-> given, ret |-> r.ret,
                   self |-> f.self]
             ELSE LET response == Response(f.self, converted, active_products,
                                           r.ret.recs, top_n)
                  IN [outcome |-> response.outcome, args |-> given,
                      ret |-> [r.ret EXCEPT !.recs = response.recs],
                      self |-> f.self] :
               r \in get_recommendations(f.self, converted, product_contexts,
                                         top_n)} :
       f \in fits}

(***************************************************************************)
(* The calls of a run on the profile builder: one call of                  *)
(* build_interest_profile on a list of behaviours, or requests to the      *)
(* endpoint over a database                                                *)
(***************************************************************************)
RunBass == <<"run", SP, "bass">>

BuildTexts == {<< >>, <<"gym">>, RunBass}

BuildEvents ==
  {SearchBehavior(t) : t \in BuildTexts}
    \cup {ProductBehavior(kind, t) :
            kind \in {"click", "view", "add_to_cart"}, t \in BuildTexts}

BuildBehaviors == UNION {[1..k -> BuildEvents] : k \in 0..MaxEvents}

\* the rows of the products table: product i of the product list, listed,
\* withdrawn or sold out
Tables ==
  {[i \in 1..MaxProducts |->
      [id |-> i,
       productcontext |-> ProductTexts[((i - 1) % Len(ProductTexts)) + 1],
       isactive |-> status[i] # "withdrawn",
       stock |-> IF status[i] = "sold out" THEN 0 ELSE 1]] :
     status \in [1..MaxProducts -> {"listed", "withdrawn", "sold out"}]}

\* the rows of the user_behaviors table the routers write: a search
\* (user.py), a view of a product (user.py), and the seeded click and
\* add_to_cart (admin.py), on products in the table and on one not in it
StoredRows ==
  {[action |-> "search", searchquery |-> <<"gym">>, productid |-> 0]}
    \cup {[action |-> kind, searchquery |-> << >>, productid |-> id] :
            kind \in {"view", "click", "add_to_cart"},
            id \in {1, MaxProducts + 1}}

StoredBehaviors == UNION {[1..k -> StoredRows] : k \in 0..MaxStored}

InitProfile ==
  /\ EngineInit
  /\ inputs \in [behaviors : BuildBehaviors, stored : {<< >>},
                  products : {<< >>}, n : {0}]
                \cup [behaviors : {<< >>}, stored : StoredBehaviors,
                      products : Tables, n : TopCounts]
  /\ NoApp
  /\ op = "init"
  /\ args = NoArgs
  /\ outcome = "none"
  /\ ret = NoRet

Build ==
  /\ Called("build_interest_profile", Args(inputs.behaviors, << >>, 0), "ok",
            [NoRet EXCEPT !.profile = build_interest_profile(inputs.behaviors)])
  /\ UNCHANGED <<engine, inputs, app>>

Endpoint ==
  /\ \E r \in get_user_recommendations(Self, inputs.stored, inputs.products,
                                       inputs.n) :
       /\ Called("get_user_recommendations", r.args, r.outcome, r.ret)
       /\ Becomes(r.self)
  /\ UNCHANGED <<inputs, app>>

NextProfile == Build \/ Endpoint

SpecProfile == InitProfile /\ [][NextProfile]_vars

(***************************************************************************)
(* The application: the admin's product actions (src/routers/admin.py) and *)
(* the requests to the recommendations endpoint, each running its handler  *)
(* statement by statement on the one engine of the module                  *)
(***************************************************************************)
\* the endpoint's default top_n
top_n_default == 5

Requests == 1..MaxRequests

Idle == [pc |-> "idle", active_products |-> << >>]

\* crud.create_product: the table with the new row, its id the next one
create_product(products, productcontext, isactive, stock) ==
  Append(products,
         [id |-> Len(products) + 1, productcontext |-> productcontext,
          isactive |-> isactive, stock |-> stock])

\* toggle_product: the table with isactive of the product flipped
toggle_product(products, product_id) ==
  [i \in 1..Len(products) |->
     IF products[i].id = product_id
     THEN [products[i] EXCEPT !.isactive = ~products[i].isactive]
     ELSE products[i]]

\* the rows the store's pages have written for the user: a search and a
\* view of product 1
DemoBehaviors ==
  <<[action |-> "search", searchquery |-> <<"gym">>, productid |-> 0],
    [action |-> "view", searchquery |-> << >>, productid |-> 1]>>

\* product_contexts of a request
ContextsOf(h) ==
  [i \in 1..Len(requests[h].active_products) |->
     requests[h].active_products[i].productcontext]

\* the request moves on to statement pc of its handler
Goes(h, pc) == requests' = [requests EXCEPT ![h].pc = pc]

\* the request ends, with a response or an exception
Ends(h) == requests' = [requests EXCEPT ![h] = Idle]

InitApp ==
  /\ EngineInit
  /\ inputs \in [n : {top_n_default}]
  /\ db = [products |-> << >>, behaviors |-> DemoBehaviors]
  /\ requests = [h \in Requests |-> Idle]
  /\ op = "init"
  /\ args = NoArgs
  /\ outcome = "none"
  /\ ret = NoRet

\* POST /admin/add: product number i of the product list, active or not
CreateProduct ==
  /\ Len(db.products) < MaxProducts
  /\ \E isactive \in BOOLEAN :
       db' = [db EXCEPT !.products =
                create_product(
                  db.products,
                  ProductTexts[(Len(db.products) % Len(ProductTexts)) + 1],
                  isactive, 1)]
  /\ Called("create_new_product", NoArgs, "ok", NoRet)
  /\ UNCHANGED <<engine, inputs, requests>>

\* GET /admin/toggle/{product_id}
ToggleProduct ==
  /\ \E product_id \in 1..Len(db.products) :
       db' = [db EXCEPT !.products = toggle_product(db.products, product_id)]
  /\ Called("toggle_product", NoArgs, "ok", NoRet)
  /\ UNCHANGED <<engine, inputs, requests>>

\* steps 1 and 2 of the handler: the two tables are read
Request(h) ==
  /\ requests[h].pc = "idle"
  /\ LET active_products == get_products(db.products)
     IN IF db.behaviors = << >>
        THEN /\ Called("get_user_recommendations", NoArgs, NoHistory, NoRet)
             /\ UNCHANGED requests
        ELSE IF active_products = << >>
        THEN /\ Called("get_user_recommendations", NoArgs, NoProducts, NoRet)
             /\ UNCHANGED requests
        ELSE /\ requests' =
                  [requests EXCEPT ![h] =
                     [pc |-> "check", active_products |-> active_products]]
             /\ UNCHANGED <<op, args, outcome, ret>>
  /\ UNCHANGED <<engine, inputs, db>>

\* step 3: if not recommendation_engine.is_fitted
CheckFitted(h) ==
  /\ requests[h].pc = "check"
  /\ Goes(h, IF is_fitted THEN "rank" ELSE "fit")
  /\ UNCHANGED <<engine, inputs, db, op, args, outcome, ret>>

\* fit, up to self.vectorizer.fit(product_contexts)
VectorizerFit(h) ==
  /\ requests[h].pc = "fit"
  /\ LET product_contexts == ContextsOf(h)
         called == Args(<< >>, product_contexts, 0)
     IN IF product_contexts = << >>
        THEN /\ Called("fit", called, NoContexts, NoRet)
             /\ Ends(h)
             /\ UNCHANGED vectorizer
        ELSE IF FitRaises(product_contexts)
        THEN /\ Called("fit", called, FitFailed, NoRet)
             /\ Ends(h)
             /\ vectorizer' \in AfterFailedFit(vectorizer)
        ELSE /\ Called("fit", called, "ok", NoRet)
             /\ Goes(h, "fitted")
             /\ vectorizer' = Fitted(product_contexts)
  /\ UNCHANGED <<is_fitted, vocabulary, inputs, db>>

\* fit: self.is_fitted = True
SetFitted(h) ==
  /\ requests[h].pc = "fitted"
  /\ is_fitted' = TRUE
  /\ Goes(h, "flagged")
  /\ Called("fit", Args(<< >>, ContextsOf(h), 0), "ok", NoRet)
  /\ UNCHANGED <<vocabulary, vectorizer, inputs, db>>

\* fit: self.vocabulary = self.vectorizer.get_feature_names_out()
SetVocabulary(h) ==
  /\ requests[h].pc = "flagged"
  /\ IF vectorizer.has_vocabulary
     THEN /\ vocabulary' =
               [is_none |-> FALSE, names |-> vectorizer.vocabulary_]
          /\ Goes(h, "rank")
          /\ Called("fit", Args(<< >>, ContextsOf(h), 0), "ok", NoRet)
     ELSE /\ UNCHANGED vocabulary
          /\ Ends(h)
          /\ Called("fit", Args(<< >>, ContextsOf(h), 0), NotFitted, NoRet)
  /\ UNCHANGED <<is_fitted, vectorizer, inputs, db>>

\* steps 4 to 6: conversion, get_recommendations, the explanations and the
\* response
Respond(h) ==
  /\ requests[h].pc = "rank"
  /\ LET product_contexts == ContextsOf(h)
         converted == user_behaviors(db.behaviors, db.products)
         given == Args(converted, product_contexts, inputs.n)
     IN \E r \in get_recommendations(Self, converted, product_contexts,
                                     inputs.n) :
          IF r.outcome # "ok"
          THEN Called("get_user_recommendations", given, r.outcome, r.ret)
          ELSE LET response == Response(Self, converted,
                                        requests[h].active_products,
                                        r.ret.recs, inputs.n)
               IN Called("get_user_recommendations", given, response.outcome,
                         [r.ret EXCEPT !.recs = response.recs])
  /\ Ends(h)
  /\ UNCHANGED <<engine, inputs, db>>

Handler(h) ==
  \/ Request(h)
  \/ CheckFitted(h)
  \/ VectorizerFit(h)
  \/ SetFitted(h)
  \/ SetVocabulary(h)
  \/ Respond(h)

NextApp == CreateProduct \/ ToggleProduct \/ \E h \in Requests : Handler(h)

SpecApp == InitApp /\ [][NextApp]_vars

(***************************************************************************)
(* Properties                                                              *)
(***************************************************************************)
Ranked == op = "get_recommendations"

Explained == op = "explain_recommendation"

\* the index is fitted and usable: is_fitted is set and the vectorizer has
\* its vocabulary and its idf weights
FittedIndex == is_fitted /\ ~TransformRaises(vectorizer)

\* C1: a get_recommendations or explain_recommendation call on an engine on
\* which no fit has succeeded raises a not-fitted error and returns nothing,
\* whatever the behaviours and the catalog, the empty ones included.
C1_NotFittedBeforeFit ==
  ((Ranked \/ Explained) /\ ~is_fitted) =>
    /\ outcome \in {MustFit, NotFitted}
    /\ ret.recs = << >>
    /\ ret.terms = << >>

\* a ranking of no behaviours against no catalog, before any fit, has raised
C1_Witness ==
  /\ Ranked
  /\ ~is_fitted
  /\ args.behaviors = << >>
  /\ args.contexts = << >>
  /\ outcome = MustFit

\* C2: fit on the empty corpus raises and leaves is_fitted, vocabulary and
\* the fitted vectorizer as they were, on an unfitted and on a fitted engine.
C2_EmptyFitKeepsState ==
  [][(op' = "fit" /\ args'.contexts = << >>) =>
       (outcome' = NoContexts /\ engine' = engine)]_vars

\* a fitted engine has been through a fit on the empty corpus
C2_Witness ==
  /\ op = "fit"
  /\ args.contexts = << >>
  /\ outcome = NoContexts
  /\ FittedIndex

\* the similarities the last call's arguments have under the index
TrueSims ==
  similarities(vectorizer, build_interest_profile(args.behaviors),
               args.contexts)

\* what C3 says of the returned sequence, its length aside: it carries the
\* true scores, in non-increasing order, all above 0.1, no index twice
C3_Ordered ==
  LET recs == ret.recs
  IN /\ \A i \in 1..Len(recs) :
          /\ recs[i].product_index + 1 \in 1..Len(args.contexts)
          /\ recs[i].similarity_score = TrueSims[recs[i].product_index + 1]
          /\ recs[i].product_context = args.contexts[recs[i].product_index + 1]
          /\ Relevant(recs[i].similarity_score)
     /\ \A i, j \in 1..Len(recs) :
          i < j =>
            /\ ~ScoreLess(recs[i].similarity_score, recs[j].similarity_score)
            /\ recs[i].product_index # recs[j].product_index

\* C3 as claimed: the sequence get_recommendations returns is sorted by
\* similarity, non-increasing, holds no item of similarity <= 0.1, no index
\* twice, and is no longer than top_n, for every top_n.
C3_SortedRelevantWithinTopN ==
  (Ranked /\ outcome = "ok") => (C3_Ordered /\ Len(ret.recs) <= args.n)

\* C3 as amended: the same, the length bound for top_n >= 0 only (a
\* negative top_n drops that many items from the end of the ranking).
C3_SortedRelevantWithinNaturalTopN ==
  (Ranked /\ outcome = "ok") =>
    /\ C3_Ordered
    /\ args.n >= 0 => Len(ret.recs) <= args.n
    /\ Len(ret.recs) <= Len(args.contexts)

\* two items of different similarity have been returned
C3_Witness ==
  /\ Ranked
  /\ outcome = "ok"
  /\ Len(ret.recs) = 2
  /\ ScoreLess(ret.recs[2].similarity_score, ret.recs[1].similarity_score)

\* C4: two catalog items of equal similarity come out in catalog order, and
\* when the cut falls between them the earlier one is the one kept.
C4_TiesKeepInputOrder ==
  (Ranked /\ outcome = "ok") =>
    LET recs == ret.recs
        returned == {recs[i].product_index + 1 : i \in 1..Len(recs)}
    IN /\ \A i, j \in 1..Len(recs) :
            (i < j /\ recs[i].similarity_score = recs[j].similarity_score)
              => recs[i].product_index < recs[j].product_index
       /\ \A i \in 1..Len(recs) :
            \A c \in (1..Len(args.contexts)) \ returned :
              TrueSims[c] = recs[i].similarity_score
                => recs[i].product_index + 1 < c

\* C5: on a fitted index and a non-empty profile, get_recommendations with
\* an empty catalog returns the empty sequence and raises nothing.
C5_EmptyCatalogReturnsEmpty ==
  (/\ Ranked
   /\ FittedIndex
   /\ build_interest_profile(args.behaviors) # << >>
   /\ args.contexts = << >>)
    => (outcome = "ok" /\ ret.recs = << >>)

\* the text an event carries
TextOf(b) == IF b.action = "search" THEN b.searchquery ELSE b.productcontext

\* no event, or every event's text the empty string
AllTextEmpty(behaviors) ==
  \A i \in 1..Len(behaviors) : TextOf(behaviors[i]) = << >>

\* C6: of no events, or of events whose texts are all empty, the profile is
\* the empty string, and get_recommendations on a fitted index returns the
\* empty sequence for them without raising and without scoring (also where
\* scoring would raise: an empty catalog, a vectorizer a failed fit broke).
C6_EmptyProfileRanksEmpty ==
  (Ranked /\ is_fitted /\ AllTextEmpty(args.behaviors)) =>
    /\ build_interest_profile(args.behaviors) = << >>
    /\ outcome = "ok"
    /\ ret.recs = << >>

\* a search for the empty string has been ranked against the empty catalog
C6_Witness ==
  /\ Ranked
  /\ is_fitted
  /\ args.behaviors = <<SearchBehavior(<< >>)>>
  /\ args.contexts = << >>
  /\ outcome = "ok"

\* the place of a reported term in the vocabulary
TermIndex(term) ==
  CHOOSE i \in 1..Len(vocabulary.names) : vocabulary.names[i] = term

\* what C10 says of the reported terms, their number aside
C10_Ordered ==
  LET user_scores == Weights(vectorizer, build_interest_profile(args.behaviors))
      product_scores == Weights(vectorizer, args.contexts[1])
      terms == ret.terms
  IN /\ \A k \in 1..Len(terms) :
          /\ \E i \in 1..Len(vocabulary.names) : vocabulary.names[i] = terms[k]
          /\ Heavy(user_scores, TermIndex(terms[k]))
          /\ Heavy(product_scores, TermIndex(terms[k]))
     /\ \A k, l \in 1..Len(terms) :
          k < l =>
            user_scores[TermIndex(terms[k])] * product_scores[TermIndex(terms[k])]
              >= user_scores[TermIndex(terms[l])]
                   * product_scores[TermIndex(terms[l])]

\* C10: on a fitted index explain_recommendation raises nothing and reports
\* only terms of weight > 0.1 in both the profile and the item vector, by
\* non-increasing product of the two weights, at most top_words of them
\* (none when no term is above 0.1 in both).
C10_HeavyInBothWithinTopWords ==
  (Explained /\ FittedIndex) =>
    /\ outcome = "ok"
    /\ C10_Ordered
    /\ Len(ret.terms) <= args.n

\* two terms of different weight product have been reported
C10_Witness ==
  /\ Explained
  /\ FittedIndex
  /\ outcome = "ok"
  /\ Len(ret.terms) = 2
  /\ LET user_scores ==
           Weights(vectorizer, build_interest_profile(args.behaviors))
         product_scores == Weights(vectorizer, args.contexts[1])
     IN user_scores[TermIndex(ret.terms[1])]
          * product_scores[TermIndex(ret.terms[1])]
        > user_scores[TermIndex(ret.terms[2])]
            * product_scores[TermIndex(ret.terms[2])]

(***************************************************************************)
(* Properties of the profile builder                                       *)
(***************************************************************************)
Built == op = "build_interest_profile"

Served == op = "get_user_recommendations"

\* the fragments the interest text is made of: each search's query three
\* times, then each click's text twice, then each view's text once
RECURSIVE Fragments(_, _, _)
Fragments(behaviors, kind, times) ==
  IF behaviors = << >> THEN << >>
  ELSE LET b == Head(behaviors)
           text == IF kind = "search" THEN b.searchquery ELSE b.productcontext
       IN (IF b.action = kind THEN [k \in 1..times |-> text] ELSE << >>)
          \o Fragments(Tail(behaviors), kind, times)

AllFragments(behaviors) ==
  Fragments(behaviors, "search", 3) \o Fragments(behaviors, "click", 2)
    \o Fragments(behaviors, "view", 1)

\* C7 as stated: the interest text of a list of events is the
\* fragments (query x3 of each search, then text x2 of each click, then text
\* x1 of each view, each group in input order) joined by single spaces
C7_ProfileIsJoinedFragments ==
  Built => ret.profile = Join(AllFragments(args.behaviors))

\* C7, amended: the interest text of a list of events is the
\* fragments (query x3 of each search, then text x2 of each click, then text
\* x1 of each view, each group in input order) joined by single spaces, with
\* the blanks at both ends of the result removed
C7_ProfileIsTrimmedJoinedFragments ==
  Built => ret.profile = Strip(Join(AllFragments(args.behaviors)))

C7_Witness ==
  /\ Built
  /\ Len(args.behaviors) = 3
  /\ args.behaviors[1] = ProductBehavior("view", <<"gym">>)
  /\ args.behaviors[2] = ProductBehavior("click", RunBass)
  /\ args.behaviors[3] = SearchBehavior(<<"gym">>)
  /\ ret.profile = <<"gym", SP, "gym", SP, "gym", SP, "run", SP, "bass", SP,
                     "run", SP, "bass", SP, "gym">>

Swap(s, i, j) ==
  [k \in 1..Len(s) |-> IF k = i THEN s[j] ELSE IF k = j THEN s[i] ELSE s[k]]

\* the pairs of positions of two events of one kind
SameKindPairs(behaviors) ==
  {p \in (1..Len(behaviors)) \X (1..Len(behaviors)) :
     p[1] < p[2] /\ behaviors[p[1]].action = behaviors[p[2]].action}

\* the pairs of positions of two clicks with one text and no click between
RepeatedClicks(behaviors) ==
  {p \in SameKindPairs(behaviors) :
     /\ behaviors[p[1]] = behaviors[p[2]]
     /\ behaviors[p[1]].action = "click"
     /\ \A k \in (p[1] + 1)..(p[2] - 1) : behaviors[k].action # "click"}

\* the two clicks at p replaced by one click on the text written twice
Merged(behaviors, p) ==
  LET text == behaviors[p[1]].productcontext
  IN [k \in 1..(Len(behaviors) - 1) |->
        IF k = p[1] THEN ProductBehavior("click", text \o <<SP>> \o text)
        ELSE IF k < p[2] THEN behaviors[k] ELSE behaviors[k + 1]]

MergeLaw ==
  \A p \in RepeatedClicks(args.behaviors) :
    build_interest_profile(Merged(args.behaviors, p)) = ret.profile

\* C8 as stated: exchanging two events of one kind leaves the interest text
\* unchanged, and two clicks with text T give the text of one click with
\* text "T T"
C8_SameKindOrderLeavesProfile ==
  Built =>
    /\ \A p \in SameKindPairs(args.behaviors) :
         build_interest_profile(Swap(args.behaviors, p[1], p[2])) = ret.profile
    /\ MergeLaw

Recognized(behaviors) ==
  SelectSeq(behaviors, LAMBDA b : b.action \in {"search", "click", "view"})

\* the interest text the engine built in the call, when it got that far
ProfileBuilt ==
  \/ Built
  \/ Served /\ args.behaviors # << >> /\ outcome \notin {MustFit, NotFitted}

\* C9: the interest text of a list of events is the interest text of the
\* list without its events of a kind other than search, click and view, also
\* when the list is the one the endpoint converts the stored behaviours to,
\* which keeps the stored kind of an event on an existing product
C9_UnrecognizedKindsIgnored ==
  /\ ProfileBuilt =>
       ret.profile = build_interest_profile(Recognized(args.behaviors))
  /\ (Served /\ ProfileBuilt) =>
       /\ args.behaviors = user_behaviors(inputs.stored, inputs.products)
       /\ ret.profile = build_interest_profile(
            user_behaviors(Recognized(inputs.stored), inputs.products))

C9_Witness ==
  /\ Served
  /\ outcome = "ok"
  /\ Len(args.behaviors) = 2
  /\ args.behaviors[1] = ProductBehavior("add_to_cart", GymBass)
  /\ args.behaviors[2] = ProductBehavior("view", GymBass)
  /\ ret.profile = GymBass
  /\ ret.recs # << >>

(***************************************************************************)
(* Properties of the engine's state                                        *)
(***************************************************************************)
\* the engine as __init__ leaves it
Fresh ==
  [is_fitted |-> FALSE, vocabulary |-> [is_none |-> TRUE, names |-> << >>],
   vectorizer |-> Unfitted]

FitSucceeds == op' = "fit" /\ outcome' = "ok"

\* C11: is_fitted becomes true only by a fit that succeeds and, once true,
\* stays true through every later call; the engine after a fit that
\* succeeds is the engine a new engine is after the same fit, whatever was
\* fitted before, so that the same fit a second time changes nothing
C11_FittedForGoodAndRefitOverwrites ==
  [][/\ is_fitted => is_fitted'
     /\ (~is_fitted /\ is_fitted') => FitSucceeds
     /\ FitSucceeds =>
          {r.self : r \in fit(Fresh, args'.contexts)} = {Self'}
     /\ (FitSucceeds /\ op = "fit" /\ outcome = "ok" /\ args' = args) =>
          engine' = engine]_vars

C11_Witness ==
  /\ is_fitted
  /\ op = "fit"
  /\ outcome = FitFailed
  /\ args.contexts # << >>

(***************************************************************************)
(* get_recommendations against the specified pipeline                      *)
(***************************************************************************)
\* the call has scored the catalog and returned
Scored == Ranked /\ outcome = "ok" /\ ret.profile # << >>

\* the catalog positions of similarity above 0.1
Eligible == {i \in 1..Len(args.contexts) : Relevant(TrueSims[i])}

\* the orderings of a set of catalog positions by non-increasing similarity
Descending(S) ==
  {p \in [1..Cardinality(S) -> S] :
     \A i, j \in 1..Cardinality(S) :
       i < j => /\ p[i] # p[j]
                /\ ~ScoreLess(TrueSims[p[i]], TrueSims[p[j]])}

\* the specified pipeline: discard, sort, keep the first top_n
SpecifiedRankings == {Slice(p, args.n) : p \in Descending(Eligible)}

\* the catalog positions returned, in the order returned
Returned == [k \in 1..Len(ret.recs) |-> ret.recs[k].product_index + 1]

\* no eligible item left out has a higher similarity than an item returned
ReturnedDominate ==
  \A k \in 1..Len(Returned) :
    \A i \in Eligible \ {Returned[l] : l \in 1..Len(Returned)} :
      ~ScoreLess(TrueSims[Returned[k]], TrueSims[i])

IsPrefix(s, t) == Len(s) <= Len(t) /\ s = SubSeq(t, 1, Len(s))

\* C14 as stated: the sequence get_recommendations returns (sort, cut to
\* top_n, discard <= 0.1) is a sequence the specified pipeline (discard
\* <= 0.1, sort, cut to top_n) gives, and every item returned has a
\* similarity no lower than every eligible item not returned
C14_SameAsSpecifiedPipeline ==
  Scored => (Returned \in SpecifiedRankings /\ ReturnedDominate)

\* C14, amended: for top_n >= 0 the sequence get_recommendations returns is
\* a sequence the specified pipeline gives; for top_n < 0 a sequence of the
\* specified pipeline is a prefix of it; in both cases every item returned
\* has a similarity no lower than every eligible item not returned
C14_SameAsSpecifiedPipelineForNaturalTopN ==
  Scored =>
    /\ args.n >= 0 => Returned \in SpecifiedRankings
    /\ args.n < 0 => \E p \in SpecifiedRankings : IsPrefix(p, Returned)
    /\ ReturnedDominate

\* the cut to top_n has kept an item that the threshold then dropped
C14_Witness ==
  /\ Scored
  /\ args.n = 2
  /\ Len(args.contexts) = 2
  /\ Cardinality(Eligible) = 1
  /\ Len(ret.recs) = 1

(***************************************************************************)
(* Properties of the application                                           *)
(***************************************************************************)
\* the endpoint has called get_recommendations in its last step
EndpointRanked ==
  op = "get_user_recommendations" /\ outcome \notin {NoHistory, NoProducts}

\* C12: every get_recommendations call of the endpoint scores a list of
\* products that is the list the engine's index was fitted on: the index is
\* the one a fit on the scored list builds
C12_RankedAgainstFittedSnapshot ==
  EndpointRanked =>
    /\ ~FitRaises(args.contexts)
    /\ vectorizer = Fitted(args.contexts)

\* the requests inside fit: past the is_fitted check of the endpoint and not
\* yet past the last statement of fit
Fitting == {h \in Requests : requests[h].pc \in {"fit", "fitted", "flagged"}}

====
